---- MODULE Spec2Model ----
(***************************************************************************)
(* Model of the LimaMedic booking application (src/app.py).                *)
(*                                                                         *)
(* The module utils_excel is not part of the sources, so the import at     *)
(* lines 11-17 fails and every handler takes its "fallback" branch: the    *)
(* appointment table is the workbook CIT_F, read whole by excel_read and   *)
(* written whole by DataFrame.to_excel.                                    *)
(*                                                                         *)
(* One browser session is modelled (the Flask session cookie: the keys     *)
(* "user" and "reserva_temp").  Requests are the POST submissions of the   *)
(* wizard, login, logout, marcar_atendido and the page citas_pendientes;   *)
(* each request is one atomic action (Spec).  generate_slots and its       *)
(* caller get_horarios_disponibles are modelled statement by statement in  *)
(* a second specification (SlotSpec).  A third one (ConcSpec) has two      *)
(* requests in flight, each in its own thread as the server runs them      *)
(* (app.run), with the read and the write of the workbook as two steps.    *)
(*                                                                         *)
(* Not modelled: the GET side of the wizard routes (it renders a page and  *)
(* changes nothing), registro, the dashboards and the receipt.  The users  *)
(* and the doctors are fixed tables.                                       *)
(*                                                                         *)
(* The environment: read_excel(CIT_F) and to_excel(CIT_F) either succeed   *)
(* or raise, per request; a to_excel that raises leaves the file as it     *)
(* was.  A missing pandas (pd is None) behaves, for pago and for           *)
(* marcar_atendido, as a read and a write that raise.  The variable io     *)
(* records what the two calls did in the last request.  marcar_atendido    *)
(* redirects to the referrer; the model names the default, index.          *)
(*                                                                         *)
(* The variables confirmado, autor and orden are history variables, not    *)
(* state of the program: the program records nothing when confirmar_cita   *)
(* is posted, and it does not record who began a draft.                    *)
(***************************************************************************)
EXTENDS Integers, Sequences, FiniteSets, TLC

(***************************************************************************)
(* Bounds of the model.                                                    *)
(***************************************************************************)
\* appointments finalized in one run (store rows plus buffered records)
MaxCitas == 2
\* last second of the clock; the clock starts at 0
MaxClock == 1

(***************************************************************************)
(* Python values.                                                          *)
(***************************************************************************)
\* Python's None, where the other values of the field are strings
None == "None"
\* what pandas.read_excel returns for an empty cell
NaN == "nan"

\* truth value of a form field: `not x` is true of None and of ""
Falsy(v) == v = None \/ v = ""

\* dict.get(key, default)
DictGet(d, key, default) == IF key \in DOMAIN d THEN d[key] ELSE default

\* d[key] = v on a dict
DictSet(d, key, v) == [k \in DOMAIN d \cup {key} |-> IF k = key THEN v ELSE d[k]]

\* d.pop(key, None)
DictPop(d, key) == [k \in DOMAIN d \ {key} |-> d[k]]

\* {} : the empty dict
EmptyDict == [k \in {} |-> None]

(***************************************************************************)
(* Text conversions.  A text that the code converts is a sequence of       *)
(* one-character strings.                                                  *)
(***************************************************************************)
Digits == <<"0", "1", "2", "3", "4", "5", "6", "7", "8", "9">>
HexDigits == Digits \o <<"a", "b", "c", "d", "e", "f">>

DigitVal(c) == CHOOSE d \in 0..9 : Digits[d + 1] = c
IsDigit(c) == \E d \in 0..9 : Digits[d + 1] = c

\* int(text): the value of a non-empty run of decimal digits; ValueError
\* (here -1) for any other text
RECURSIVE DigitsVal(_)
DigitsVal(t) ==
    IF t = <<>> THEN 0
    ELSE 10 * DigitsVal(SubSeq(t, 1, Len(t) - 1)) + DigitVal(t[Len(t)])

PyInt(t) ==
    IF t # <<>> /\ \A i \in 1..Len(t) : IsDigit(t[i]) THEN DigitsVal(t) ELSE -1

\* f"{n:06d}"
Pad06(n) ==
    [i \in 1..6 |-> Digits[((n \div (10 ^ (6 - i))) % 10) + 1]]

\* secrets.token_hex: two lower-case hexadecimal digits per byte
RECURSIVE token_hex(_)
token_hex(bytes) ==
    IF bytes = <<>> THEN <<>>
    ELSE <<HexDigits[(Head(bytes) \div 16) + 1], HexDigits[(Head(bytes) % 16) + 1]>>
         \o token_hex(Tail(bytes))

(***************************************************************************)
(* Tables and request inputs.                                              *)
(***************************************************************************)
\* the registered users (rows of PATI_F)
Pacientes ==
    [ana  |-> [username |-> "ana",  nombre |-> "Ana Rojas",  rol |-> "paciente",
               email |-> "ana@mail.pe",  password |-> "clave"],
     luis |-> [username |-> "luis", nombre |-> "Luis Soto",  rol |-> "paciente",
               email |-> "luis@mail.pe", password |-> "clave"],
     sec  |-> [username |-> "sec",  nombre |-> "Sara Cruz",  rol |-> "secretaria",
               email |-> "sec@mail.pe",  password |-> "clave"]]

\* the doctors (rows of MED_F)
Medicos ==
    <<[id |-> 3, nombre |-> "Dra. Ruiz", especialidad |-> "Cardiologia",
       start_time |-> "09:00", end_time |-> "10:30"]>>

(***************************************************************************)
(* The inputs of a run.  A run varies one family of inputs and keeps the   *)
(* others at one well-formed value; Init chooses the family (caso):        *)
(*   "metodos"      the payment methods and the random references,         *)
(*   "formularios"  forms with missing or malformed fields,                *)
(*   "usuarios"     several users, one after the other in the session,     *)
(*   "fallos"       read_excel and to_excel on CIT_F may raise.            *)
(***************************************************************************)
Casos == {"metodos", "formularios", "usuarios", "fallos"}

FormLogin(identifier, password, rol) ==
    [identifier |-> identifier, password |-> password, rol |-> rol]

\* request.form of login
LoginForms(c) ==
    IF c = "usuarios"
    THEN {FormLogin("ana", "clave", "paciente"), FormLogin("luis", "clave", "paciente"),
          FormLogin("sec", "clave", "secretaria"), FormLogin("luis", "otra", "paciente"),
          FormLogin("sec", "clave", "paciente")}
    ELSE {FormLogin("ana", "clave", "paciente")}

FormCompleto == [especialidad |-> "Cardiologia", fecha |-> "2024-05-01"]

\* request.form of the specialty step: both fields, none
ReservaForms(c) ==
    IF c = "formularios" THEN {FormCompleto, EmptyDict} ELSE {FormCompleto}

\* request.form of the doctor step: a number, no field, "", not a number
MedicoForms(c) ==
    IF c = "formularios"
    THEN {[medico_id |-> <<"3">>], EmptyDict, [medico_id |-> <<>>], [medico_id |-> <<"x">>]}
    ELSE {[medico_id |-> <<"3">>]}

\* request.form of the time step
HoraForms(c) ==
    IF c = "formularios"
    THEN {[hora |-> "09:30"], EmptyDict, [hora |-> ""]}
    ELSE {[hora |-> "09:30"]}

\* request.form of the pay step
PagoForms(c) ==
    IF c = "metodos"
    THEN {EmptyDict, [metodo |-> "QR"], [metodo |-> "qr"]}
    ELSE {EmptyDict}

\* values secrets.token_bytes(6) may return
TokenSamples(c) == {<<0, 171, 205, 239, 18, 52>>}

\* values secrets.randbelow(10**6) may return
RandSamples(c) == {42}

\* whether read_excel(CIT_F) / to_excel(CIT_F) may succeed, may raise
IOOutcomes(c) == IF c = "fallos" THEN {TRUE, FALSE} ELSE {TRUE}

(***************************************************************************)
(* State.                                                                  *)
(***************************************************************************)
VARIABLES
    caso,        \* the family of inputs this run varies
    session,     \* the Flask session: a dict with the keys "user", "reserva_temp"
    store,       \* the rows of CIT_F, as excel_read returns them
    mem,         \* citas_pendientes_mem
    now,         \* int(datetime.utcnow().timestamp())
    resp,        \* the response to the last request
    io,          \* what read_excel / to_excel on CIT_F did in the last request
    confirmado,  \* history: confirmar_cita was posted for the draft as it is now
    autor,       \* history: the username that began the draft, None without draft
    slot_in,     \* generate_slots: the arguments
    slot_pc,     \* generate_slots: the statement to run next
    slot_cur,    \* generate_slots: cur, in minutes since 1900-01-01 00:00
    slot_end,    \* generate_slots: end, in minutes since 1900-01-01 00:00
    slots,       \* generate_slots: slots
    medico,      \* get_horarios_disponibles: the argument, a dict
    hd_pc,       \* get_horarios_disponibles: where the call is
    horarios,    \* get_horarios_disponibles: the value returned
    reqs,        \* two requests in flight: each one's session, position and frame
    orden        \* history: the reads and writes of the requests in flight, in order

web_vars == <<caso, session, store, mem, now, resp, io, confirmado, autor>>
hd_vars == <<medico, hd_pc, horarios>>
slot_vars == <<slot_in, slot_pc, slot_cur, slot_end, slots, hd_vars>>
conc_vars == <<reqs, orden>>
vars == <<caso, session, store, mem, now, resp, io, confirmado, autor,
          slot_in, slot_pc, slot_cur, slot_end, slots, medico, hd_pc, horarios,
          reqs, orden>>

\* a response: the route that answered, the appointment id in its URL (-1 when
\* it has none), "redirect" / "render" / "error500", the target, the category of
\* the flashed message, the appointments the page lists
Response(route, status, to, flash) ==
    [route |-> route, cita_id |-> -1, status |-> status, to |-> to, flash |-> flash,
     citas |-> <<>>]

NoIO == [read |-> "none", write |-> "none"]

WebInit ==
    /\ caso \in Casos
    /\ session = EmptyDict
    /\ store = <<>>
    /\ mem = <<>>
    /\ now = 0
    /\ resp = Response("", "", "", "")
    /\ io = NoIO
    /\ confirmado = FALSE
    /\ autor = None

(***************************************************************************)
(* The workbook CIT_F.                                                     *)
(***************************************************************************)
\* a text cell written by to_excel and read back: None and "" come back NaN
Cell(v) == IF Falsy(v) THEN NaN ELSE v

\* DataFrame.to_excel followed by read_excel, on one row
ExcelRow(r) ==
    [r EXCEPT !.usuario = Cell(@), !.nombre_paciente = Cell(@),
              !.especialidad = Cell(@), !.medico_nombre = Cell(@),
              !.fecha = Cell(@), !.hora = Cell(@), !.estado = Cell(@),
              !.metodo_pago = Cell(@)]

\* df.to_excel(path): the whole table replaces the file
to_excel(df) == [i \in 1..Len(df) |-> ExcelRow(df[i])]

\* excel_read: the table, or an empty frame when read_excel raises
excel_read(file, read_ok) == IF read_ok THEN file ELSE <<>>

\* excel_append_row: read, concat, write
excel_append_row(file, row, read_ok) ==
    to_excel(Append(excel_read(file, read_ok), row))

(***************************************************************************)
(* login, logout.                                                          *)
(***************************************************************************)
\* the fallback of authenticate: the row of PATI_F, or <<>> when refused
authenticate(identifier, password, rol) ==
    IF /\ identifier \in DOMAIN Pacientes
       /\ Pacientes[identifier].password = password
       /\ Pacientes[identifier].rol = rol
    THEN <<Pacientes[identifier]>>
    ELSE <<>>

login ==
    \E form \in LoginForms(caso) :
        LET rol == form.rol
            res == authenticate(form.identifier, form.password, rol)
        IN
        /\ IF res = <<>>
           THEN /\ resp' = Response("login", "render", "login.html", "error")
                /\ UNCHANGED session
           ELSE /\ session' = DictSet(session, "user",
                                  [username |-> res[1].username, nombre |-> res[1].nombre,
                                   rol |-> rol, email |-> res[1].email])
                /\ resp' = Response("login", "redirect",
                                    IF rol = "paciente" THEN "dashboard_paciente"
                                    ELSE "dashboard_secretaria", "")
        /\ io' = NoIO
        /\ UNCHANGED <<caso, store, mem, now, confirmado, autor, slot_vars, conc_vars>>

logout ==
    /\ session' = DictPop(session, "user")
    /\ resp' = Response("logout", "redirect", "index", "success")
    /\ io' = NoIO
    /\ UNCHANGED <<caso, store, mem, now, confirmado, autor, slot_vars, conc_vars>>

(***************************************************************************)
(* The booking wizard: reserva, seleccionar_medico, seleccionar_hora,      *)
(* confirmar_cita (POST).                                                  *)
(***************************************************************************)
\* the guard of reserva and of pago: no patient is logged in
no_paciente(s) == "user" \notin DOMAIN s \/ s["user"].rol # "paciente"

reserva ==
    \E form \in ReservaForms(caso) :
        /\ IF no_paciente(session)
           THEN /\ resp' = Response("reserva", "redirect", "login", "error")
                /\ UNCHANGED <<session, confirmado, autor>>
           ELSE /\ session' = DictSet(session, "reserva_temp",
                                  [especialidad |-> DictGet(form, "especialidad", None),
                                   fecha |-> DictGet(form, "fecha", None)])
                /\ confirmado' = FALSE
                /\ autor' = session["user"].username
                /\ resp' = Response("reserva", "redirect", "seleccionar_medico", "")
        /\ io' = NoIO
        /\ UNCHANGED <<caso, store, mem, now, slot_vars, conc_vars>>

\* the guard of seleccionar_medico
medico_guard(s) == "user" \notin DOMAIN s \/ "reserva_temp" \notin DOMAIN s

seleccionar_medico ==
    \E form \in MedicoForms(caso) :
        LET medico_id == DictGet(form, "medico_id", <<>>) IN
        /\ IF medico_guard(session)
           THEN /\ resp' = Response("seleccionar_medico", "redirect", "reserva", "error")
                /\ UNCHANGED <<session, confirmado, autor>>
           ELSE IF medico_id = <<>>
           THEN /\ resp' = Response("seleccionar_medico", "redirect",
                                    "seleccionar_medico", "error")
                /\ UNCHANGED <<session, confirmado, autor>>
           ELSE IF PyInt(medico_id) < 0
           THEN \* int(medico_id) raises ValueError, which nothing catches
                /\ resp' = Response("seleccionar_medico", "error500", "", "")
                /\ UNCHANGED <<session, confirmado, autor>>
           ELSE /\ session' = DictSet(session, "reserva_temp",
                                  DictSet(session["reserva_temp"], "medico_id",
                                          PyInt(medico_id)))
                /\ confirmado' = FALSE
                /\ resp' = Response("seleccionar_medico", "redirect", "seleccionar_hora", "")
                /\ UNCHANGED autor
        /\ io' = NoIO
        /\ UNCHANGED <<caso, store, mem, now, slot_vars, conc_vars>>

\* a time step that checks nothing
hora_guard_none(temp) == FALSE

\* the guard of seleccionar_hora
hora_guard(temp) == "medico_id" \notin DOMAIN temp

seleccionar_hora ==
    \E form \in HoraForms(caso) :
        LET temp == DictGet(session, "reserva_temp", EmptyDict)
            hora == DictGet(form, "hora", None)
        IN
        /\ IF hora_guard(temp)
           THEN /\ resp' = Response("seleccionar_hora", "redirect",
                                    "seleccionar_medico", "error")
                /\ UNCHANGED <<session, confirmado, autor>>
           ELSE IF Falsy(hora)
           THEN /\ resp' = Response("seleccionar_hora", "redirect",
                                    "seleccionar_hora", "error")
                /\ UNCHANGED <<session, confirmado, autor>>
           ELSE /\ session' = DictSet(session, "reserva_temp", DictSet(temp, "hora", hora))
                /\ confirmado' = FALSE
                /\ resp' = Response("seleccionar_hora", "redirect", "confirmar_cita", "")
                /\ UNCHANGED autor
        /\ io' = NoIO
        /\ UNCHANGED <<caso, store, mem, now, slot_vars, conc_vars>>

confirmar_cita ==
    /\ resp' = Response("confirmar_cita", "redirect", "pago", "")
    /\ confirmado' = ("hora" \in DOMAIN DictGet(session, "reserva_temp", EmptyDict))
    /\ io' = NoIO
    /\ UNCHANGED <<caso, session, store, mem, now, autor, slot_vars, conc_vars>>

(***************************************************************************)
(* pago (POST): the appointment is created and persisted.                  *)
(***************************************************************************)
\* a guard that looks for the doctor, not for the time
pago_guard_medico(temp) == temp = EmptyDict \/ "medico_id" \notin DOMAIN temp

\* the guard on the draft: `not temp or "hora" not in temp`
pago_guard(temp) == temp = EmptyDict \/ "hora" \notin DOMAIN temp

\* a comparison of the method that ignores its case
pago_estado_nocase(metodo) == IF metodo \in {"QR", "qr"} THEN "Pagado" ELSE "Pendiente"

\* "estado": "Pagado" if metodo=="QR" else "Pendiente"
pago_estado(metodo) == IF metodo = "QR" THEN "Pagado" ELSE "Pendiente"

\* the reference: token_hex(6) for QR, else six decimal digits
pago_referencia(metodo, bytes, n) ==
    IF metodo = "QR" THEN token_hex(bytes) ELSE Pad06(n)

\* the name of the doctor with this id in MED_F, "" when there is none
medico_nombre(id) ==
    LET rows == SelectSeq(Medicos, LAMBDA m : m.id = id) IN
    IF rows # <<>> THEN rows[1].nombre ELSE ""

\* the dict cita
nueva_cita(user, temp, metodo, id, bytes, n) ==
    [id |-> id,
     usuario |-> user.username,
     nombre_paciente |-> user.nombre,
     especialidad |-> DictGet(temp, "especialidad", None),
     medico_id |-> DictGet(temp, "medico_id", None),
     medico_nombre |-> medico_nombre(DictGet(temp, "medico_id", None)),
     fecha |-> DictGet(temp, "fecha", None),
     hora |-> DictGet(temp, "hora", None),
     estado |-> pago_estado(metodo),
     metodo_pago |-> metodo,
     referencia |-> pago_referencia(metodo, bytes, n)]

\* a handler that only logs the error of the write
pago_persistir_sin_mem(file, buffer, cita, read_ok, write_ok) ==
    IF write_ok
    THEN [store |-> excel_append_row(file, cita, read_ok), mem |-> buffer]
    ELSE [store |-> file, mem |-> buffer]

\* try: excel_append_row(CIT_F, cita) / except: citas_pendientes_mem.append(cita)
pago_persistir(file, buffer, cita, read_ok, write_ok) ==
    IF write_ok
    THEN [store |-> excel_append_row(file, cita, read_ok), mem |-> buffer]
    ELSE [store |-> file, mem |-> Append(buffer, cita)]

IOResult(ok) == IF ok THEN "ok" ELSE "fail"

pago ==
    LET temp == DictGet(session, "reserva_temp", EmptyDict) IN
    IF no_paciente(session)
    THEN /\ resp' = Response("pago", "redirect", "login", "error")
         /\ io' = NoIO
         /\ UNCHANGED <<caso, session, store, mem, now, confirmado, autor, slot_vars, conc_vars>>
    ELSE IF pago_guard(temp)
    THEN /\ resp' = Response("pago", "redirect", "seleccionar_hora", "error")
         /\ io' = NoIO
         /\ UNCHANGED <<caso, session, store, mem, now, confirmado, autor, slot_vars, conc_vars>>
    ELSE \E form \in PagoForms(caso), bytes \in TokenSamples(caso), n \in RandSamples(caso),
            read_ok \in IOOutcomes(caso), write_ok \in IOOutcomes(caso) :
         LET metodo == DictGet(form, "metodo", "EFECTIVO")
             cita == nueva_cita(session["user"], temp, metodo, now, bytes, n)
             saved == pago_persistir(store, mem, cita, read_ok, write_ok)
         IN
         /\ Len(store) + Len(mem) < MaxCitas
         /\ store' = saved.store
         /\ mem' = saved.mem
         /\ io' = [read |-> IOResult(read_ok), write |-> IOResult(write_ok)]
         /\ session' = DictPop(session, "reserva_temp")
         /\ confirmado' = FALSE
         /\ autor' = None
         /\ resp' = Response("pago", "redirect", "citas_pendientes", "success")
         /\ UNCHANGED <<caso, now, slot_vars, conc_vars>>

(***************************************************************************)
(* marcar_atendido.                                                        *)
(***************************************************************************)
\* an update without the row mask: every row is marked
marcar_filas_todas(df, cita_id) ==
    [i \in 1..Len(df) |-> [df[i] EXCEPT !.estado = "Atendido"]]

\* an update that writes a status to every row: the others become Pendiente
marcar_filas_reset(df, cita_id) ==
    [i \in 1..Len(df) |->
        [df[i] EXCEPT !.estado = IF df[i].id = cita_id THEN "Atendido" ELSE "Pendiente"]]

\* df.loc[df["id"]==cita_id, "estado"] = "Atendido"
marcar_filas(df, cita_id) ==
    [i \in 1..Len(df) |->
        IF df[i].id = cita_id THEN [df[i] EXCEPT !.estado = "Atendido"] ELSE df[i]]

marcar_atendido ==
    \E cita_id \in 0..MaxClock, read_ok \in IOOutcomes(caso), write_ok \in IOOutcomes(caso) :
        LET df == excel_read(store, read_ok)
            ok == df # <<>> /\ write_ok
        IN
        /\ store' = IF ok THEN to_excel(marcar_filas(df, cita_id)) ELSE store
        /\ io' = [read |-> IOResult(read_ok),
                  write |-> IF df # <<>> THEN IOResult(write_ok) ELSE "none"]
        /\ resp' = [Response("marcar_atendido", "redirect", "index",
                             IF ok THEN "success" ELSE "error")
                    EXCEPT !.cita_id = cita_id]
        /\ UNCHANGED <<caso, session, mem, now, confirmado, autor, slot_vars, conc_vars>>

(***************************************************************************)
(* citas_pendientes (GET): the page that lists the user's appointments.    *)
(***************************************************************************)
\* the records of a table that belong to username
citas_de(tabla, username) == SelectSeq(tabla, LAMBDA c : c.usuario = username)

citas_pendientes ==
    IF "user" \notin DOMAIN session
    THEN /\ resp' = Response("citas_pendientes", "redirect", "login", "error")
         /\ io' = NoIO
         /\ UNCHANGED <<caso, session, store, mem, now, confirmado, autor,
                        slot_vars, conc_vars>>
    ELSE \E read_ok \in IOOutcomes(caso) :
         LET username == session["user"].username
             df == excel_read(store, read_ok)
             citas == IF df # <<>> THEN citas_de(df, username)
                      ELSE citas_de(mem, username)
         IN
         /\ resp' = [Response("citas_pendientes", "render", "citas_pendientes.html",
                              IF citas = <<>> THEN "info" ELSE "")
                     EXCEPT !.citas = citas]
         /\ io' = [read |-> IOResult(read_ok), write |-> "none"]
         /\ UNCHANGED <<caso, session, store, mem, now, confirmado, autor,
                        slot_vars, conc_vars>>

(***************************************************************************)
(* The clock.                                                              *)
(***************************************************************************)
Tick ==
    /\ now < MaxClock
    /\ now' = now + 1
    /\ UNCHANGED <<caso, session, store, mem, resp, io, confirmado, autor, slot_vars, conc_vars>>

(***************************************************************************)
(* generate_slots, statement by statement.  A time text is a sequence of   *)
(* characters; a datetime is a number of minutes since 1900-01-01 00:00.   *)
(***************************************************************************)
\* the position of the first ":" in t, 0 when there is none
ColonAt(t) ==
    IF \E i \in 1..Len(t) : t[i] = ":"
    THEN CHOOSE i \in 1..Len(t) : t[i] = ":" /\ \A j \in 1..(i - 1) : t[j] # ":"
    ELSE 0

\* one or two decimal digits with a value of at most max: the value, else -1
TwoDigits(t, max) ==
    IF Len(t) \in {1, 2} /\ PyInt(t) >= 0 /\ PyInt(t) <= max THEN PyInt(t) ELSE -1

\* datetime.strptime(t, "%H:%M"): the minutes, -1 for ValueError
strptime(t) ==
    LET c == ColonAt(t)
        h == TwoDigits(SubSeq(t, 1, c - 1), 23)
        m == TwoDigits(SubSeq(t, c + 1, Len(t)), 59)
    IN IF c = 0 \/ h < 0 \/ m < 0 THEN -1 ELSE 60 * h + m

\* dt.strftime("%H:%M"): the time of day of dt, zero padded
strftime(dt) ==
    LET tod == dt % 1440
        h == tod \div 60
        m == tod % 60
    IN <<Digits[(h \div 10) + 1], Digits[(h % 10) + 1], ":",
         Digits[(m \div 10) + 1], Digits[(m % 10) + 1]>>

\* a loop that runs while a slot starts before `end`
slot_cond_starts_before(cur, n, end) == cur < end

\* the condition of the while loop
slot_cond(cur, n, end) == cur + n <= end

\* the arguments generate_slots is called with
SlotTimes ==
    {<<"0", "9", ":", "0", "0">>, <<"9", ":", "0", "0">>, <<"1", "0", ":", "3", "0">>,
     <<"1", "0", ":", "0", "5">>, <<"0", "0", ":", "0", "0">>, <<"2", "3", ":", "5", "9">>,
     <<"2", "5", ":", "0", "0">>, <<"0", "9", "0", "0">>}
SlotLengths == {7, 30, 45}

\* a cell of MED_F that is not a text: the float NaN of an empty cell
NoText == <<NaN>>

\* no call of get_horarios_disponibles is going on
HorariosOff ==
    /\ medico = EmptyDict
    /\ hd_pc = "off"
    /\ horarios = <<>>

SlotOff ==
    /\ slot_in = [start |-> <<>>, end |-> <<>>, n |-> 0]
    /\ slot_pc = "off"
    /\ slot_cur = 0
    /\ slot_end = 0
    /\ slots = <<>>
    /\ HorariosOff

\* generate_slots is called with these arguments
SlotInit ==
    /\ slot_in \in [start : SlotTimes, end : SlotTimes, n : SlotLengths]
    /\ slot_pc = "call"
    /\ slot_cur = 0
    /\ slot_end = 0
    /\ slots = <<>>
    /\ HorariosOff

\* lines 127-131: parse both times, slots = [], cur = start; strptime raises
\* TypeError for an argument that is not a text, ValueError for a text that
\* is not a time
SlotParse ==
    /\ slot_pc = "call"
    /\ LET start == strptime(slot_in.start)
           end == strptime(slot_in.end)
       IN IF slot_in.start = NoText
          THEN /\ slot_pc' = "TypeError"
               /\ UNCHANGED <<slot_cur, slot_end, slots>>
          ELSE IF start < 0
          THEN /\ slot_pc' = "ValueError"
               /\ UNCHANGED <<slot_cur, slot_end, slots>>
          ELSE IF slot_in.end = NoText
          THEN /\ slot_pc' = "TypeError"
               /\ UNCHANGED <<slot_cur, slot_end, slots>>
          ELSE IF end < 0
          THEN /\ slot_pc' = "ValueError"
               /\ UNCHANGED <<slot_cur, slot_end, slots>>
          ELSE /\ slot_pc' = "while"
               /\ slot_cur' = start
               /\ slot_end' = end
               /\ slots' = <<>>
    /\ UNCHANGED <<web_vars, conc_vars, slot_in, hd_vars>>

\* lines 132-134: one pass of the loop
SlotLoop ==
    /\ slot_pc = "while"
    /\ slot_cond(slot_cur, slot_in.n, slot_end)
    /\ slots' = Append(slots, strftime(slot_cur))
    /\ slot_cur' = slot_cur + slot_in.n
    /\ UNCHANGED <<web_vars, conc_vars, slot_in, slot_pc, slot_end, hd_vars>>

\* line 135: the loop is left and slots is returned
SlotReturn ==
    /\ slot_pc = "while"
    /\ ~slot_cond(slot_cur, slot_in.n, slot_end)
    /\ slot_pc' = "return"
    /\ UNCHANGED <<web_vars, conc_vars, slot_in, slot_cur, slot_end, slots, hd_vars>>

(***************************************************************************)
(* get_horarios_disponibles: the caller of generate_slots.                 *)
(***************************************************************************)
\* the dicts get_horarios_disponibles is called with: a row of MED_F, whose
\* two times are texts or empty cells, or a dict without one or both keys
\* (seleccionar_hora passes {"id", "nombre"} when MED_F cannot be used)
MedicoDicts ==
    LET times == SlotTimes \cup {NoText}
        base == [id |-> 3, nombre |-> "Medico"]
    IN {base}
       \cup {DictSet(base, "start_time", s) : s \in times}
       \cup {DictSet(base, "end_time", e) : e \in times}
       \cup {DictSet(DictSet(base, "start_time", s), "end_time", e) :
                s \in times, e \in times}

\* get_horarios_disponibles is called with this dict
HorariosInit ==
    /\ slot_in = [start |-> <<>>, end |-> <<>>, n |-> 0]
    /\ slot_pc = "off"
    /\ slot_cur = 0
    /\ slot_end = 0
    /\ slots = <<>>
    /\ medico \in MedicoDicts
    /\ hd_pc = "call"
    /\ horarios = <<>>

\* a handler that returns no time at all
horarios_except_vacio == <<>>

\* the list returned by the except branch
horarios_except ==
    << <<"0", "9", ":", "0", "0">>, <<"0", "9", ":", "3", "0">>,
       <<"1", "0", ":", "0", "0">>, <<"1", "0", ":", "3", "0">>,
       <<"1", "1", ":", "0", "0">> >>

\* lines 139-141: inicio, fin, the call generate_slots(inicio, fin, 30)
HorariosCall ==
    /\ hd_pc = "call"
    /\ LET inicio == DictGet(medico, "start_time", <<"0", "9", ":", "0", "0">>)
           fin == DictGet(medico, "end_time", <<"1", "7", ":", "0", "0">>)
       IN slot_in' = [start |-> inicio, end |-> fin, n |-> 30]
    /\ slot_pc' = "call"
    /\ hd_pc' = "try"
    /\ UNCHANGED <<web_vars, conc_vars, slot_cur, slot_end, slots, medico, horarios>>

\* line 141: generate_slots has returned, its value is returned
HorariosReturn ==
    /\ hd_pc = "try"
    /\ slot_pc = "return"
    /\ horarios' = slots
    /\ hd_pc' = "return"
    /\ UNCHANGED <<web_vars, conc_vars, slot_in, slot_pc, slot_cur, slot_end, slots, medico>>

\* lines 142-143: generate_slots has raised, the fixed list is returned
HorariosExcept ==
    /\ hd_pc = "try"
    /\ slot_pc \in {"ValueError", "TypeError"}
    /\ horarios' = horarios_except
    /\ hd_pc' = "return"
    /\ UNCHANGED <<web_vars, conc_vars, slot_in, slot_pc, slot_cur, slot_end, slots, medico>>

(***************************************************************************)
(* Two requests in flight on CIT_F.  The server answers each request in    *)
(* its own thread and nothing locks the workbook: the read_excel and the   *)
(* to_excel of one handler are two steps, and the other handler may run    *)
(* between them.  Each request has its own session (its own browser); the  *)
(* reads and the writes succeed.                                           *)
(***************************************************************************)
\* no request in flight
ConcOff ==
    /\ reqs = <<>>
    /\ orden = <<>>

\* the session of a logged-in patient whose draft is complete
SesionLista(u) ==
    [user |-> [username |-> Pacientes[u].username, nombre |-> Pacientes[u].nombre,
               rol |-> "paciente", email |-> Pacientes[u].email],
     reserva_temp |-> [especialidad |-> "Cardiologia", fecha |-> "2024-05-01",
                       medico_id |-> 3, hora |-> "09:30"]]

\* a POST /pago that has not started; cita is a list of at most one dict
PagoReq(u, metodo) ==
    [op |-> "pago", pc |-> "read", session |-> SesionLista(u), metodo |-> metodo,
     cita |-> <<>>, cita_id |-> -1, df |-> <<>>, flash |-> ""]

\* a /marcar_atendido/<cita_id> that has not started
MarcarReq(cita_id) ==
    [op |-> "marcar_atendido", pc |-> "read", session |-> EmptyDict, metodo |-> "",
     cita |-> <<>>, cita_id |-> cita_id, df |-> <<>>, flash |-> ""]

\* the workbook when the two requests arrive: appointments that ana booked at
\* the seconds 0, 1, ... and paid in cash
ConcStores ==
    {[i \in 1..k |->
        ExcelRow(nueva_cita(SesionLista("ana").user, SesionLista("ana").reserva_temp,
                            "EFECTIVO", i - 1, <<>>, 42))] : k \in 0..(MaxCitas - 1)}

ConcInit ==
    /\ caso = "metodos"
    /\ session = EmptyDict
    /\ store \in ConcStores
    /\ mem = <<>>
    /\ now = MaxClock
    /\ resp = Response("", "", "", "")
    /\ io = NoIO
    /\ confirmado = FALSE
    /\ autor = None
    /\ reqs \in {<<a, b>> :
            a \in {PagoReq("ana", metodo) : metodo \in {"EFECTIVO", "QR"}},
            b \in {PagoReq("luis", metodo) : metodo \in {"EFECTIVO", "QR"}}
                  \cup {MarcarReq(cita_id) : cita_id \in 0..MaxClock}}
    /\ orden = <<>>

\* a write under a lock: the row is added to the file as it is now
concat_write_locked(file, df, row) == to_excel(Append(file, row))

\* excel_append_row, after the read: df2 = concat([df, row]); df2.to_excel(path)
concat_write(file, df, row) == to_excel(Append(df, row))

\* pago up to the read of excel_append_row: the guards, the dict cita, df
PagoRead(r) ==
    LET s == reqs[r].session
        temp == DictGet(s, "reserva_temp", EmptyDict)
        metodo == reqs[r].metodo
    IN
    /\ reqs[r].op = "pago"
    /\ reqs[r].pc = "read"
    /\ ~no_paciente(s)
    /\ ~pago_guard(temp)
    /\ \E bytes \in TokenSamples(caso), n \in RandSamples(caso) :
        reqs' = [reqs EXCEPT ![r].cita = <<nueva_cita(s["user"], temp, metodo, now, bytes, n)>>,
                             ![r].df = excel_read(store, TRUE),
                             ![r].pc = "write"]
    /\ orden' = Append(orden, <<r, "read">>)
    /\ UNCHANGED <<web_vars, slot_vars>>

\* the rest of excel_append_row and of pago: the write, the draft is dropped,
\* the message of success
PagoWrite(r) ==
    /\ reqs[r].op = "pago"
    /\ reqs[r].pc = "write"
    /\ store' = concat_write(store, reqs[r].df, reqs[r].cita[1])
    /\ reqs' = [reqs EXCEPT ![r].session = DictPop(@, "reserva_temp"),
                            ![r].flash = "success",
                            ![r].pc = "done"]
    /\ orden' = Append(orden, <<r, "write">>)
    /\ UNCHANGED <<caso, session, mem, now, resp, io, confirmado, autor, slot_vars>>

\* marcar_atendido up to the test of the frame: an empty frame is an error
MarcarRead(r) ==
    LET df == excel_read(store, TRUE) IN
    /\ reqs[r].op = "marcar_atendido"
    /\ reqs[r].pc = "read"
    /\ reqs' = IF df # <<>>
               THEN [reqs EXCEPT ![r].df = df, ![r].pc = "write"]
               ELSE [reqs EXCEPT ![r].df = df, ![r].flash = "error", ![r].pc = "done"]
    /\ orden' = Append(orden, <<r, "read">>)
    /\ UNCHANGED <<web_vars, slot_vars>>

\* the rest of marcar_atendido: the rows are marked in the frame that was
\* read, the frame is written, the message of success
MarcarWrite(r) ==
    /\ reqs[r].op = "marcar_atendido"
    /\ reqs[r].pc = "write"
    /\ store' = to_excel(marcar_filas(reqs[r].df, reqs[r].cita_id))
    /\ reqs' = [reqs EXCEPT ![r].flash = "success", ![r].pc = "done"]
    /\ orden' = Append(orden, <<r, "write">>)
    /\ UNCHANGED <<caso, session, mem, now, resp, io, confirmado, autor, slot_vars>>

Init == WebInit /\ SlotOff /\ ConcOff

Next ==
    \/ login
    \/ logout
    \/ reserva
    \/ seleccionar_medico
    \/ seleccionar_hora
    \/ confirmar_cita
    \/ pago
    \/ citas_pendientes
    \/ marcar_atendido
    \/ Tick

Spec == Init /\ [][Next]_vars

\* the application at rest, for the runs of generate_slots
WebOff ==
    /\ caso = "metodos"
    /\ session = EmptyDict
    /\ store = <<>>
    /\ mem = <<>>
    /\ now = 0
    /\ resp = Response("", "", "", "")
    /\ io = NoIO
    /\ confirmado = FALSE
    /\ autor = None

SlotSpecInit == WebOff /\ (SlotInit \/ HorariosInit) /\ ConcOff

SlotNext ==
    \/ SlotParse
    \/ SlotLoop
    \/ SlotReturn
    \/ HorariosCall
    \/ HorariosReturn
    \/ HorariosExcept

SlotSpec == SlotSpecInit /\ [][SlotNext]_vars

ConcSpecInit == ConcInit /\ SlotOff

ConcNext ==
    \E r \in 1..2 :
        \/ PagoRead(r)
        \/ PagoWrite(r)
        \/ MarcarRead(r)
        \/ MarcarWrite(r)

ConcSpec == ConcSpecInit /\ [][ConcNext]_vars

(***************************************************************************)
(* The claims.                                                             *)
(***************************************************************************)

\* the arguments of the run of generate_slots, as minutes of the day
SlotStart == strptime(slot_in.start)
SlotEnd == strptime(slot_in.end)

\* C4: for times that parse and n >= 1, generate_slots returns the slot starts
\* start, start+n, start+2n, ... as zero-padded HH:MM texts, in order: all of
\* those that end by `end` and no other (so none when start >= end)
C4_SlotsExact ==
    slot_pc = "return" =>
        LET n == slot_in.n
            k == Len(slots)
        IN /\ n >= 1
           /\ \A i \in 1..k :
                /\ Len(slots[i]) = 5
                /\ strptime(slots[i]) = SlotStart + (i - 1) * n
                /\ strptime(slots[i]) + n <= SlotEnd
           /\ SlotStart + (k + 1) * n > SlotEnd
           /\ (SlotStart >= SlotEnd => k = 0)
           /\ (k > 0 /\ Len(slot_in.start) = 5 => slots[1] = slot_in.start)

\* C4, witness: 09:00 to 10:30 in slots of 30 minutes gives 09:00, 09:30, 10:00
C4_Witness ==
    /\ slot_pc = "return"
    /\ slot_in = [start |-> <<"0", "9", ":", "0", "0">>,
                  end |-> <<"1", "0", ":", "3", "0">>, n |-> 30]
    /\ slots = << <<"0", "9", ":", "0", "0">>, <<"0", "9", ":", "3", "0">>,
                  <<"1", "0", ":", "0", "0">> >>

(***************************************************************************)
(* Vocabulary of the claims about the application.                         *)
(***************************************************************************)
\* the booking draft of the session, {} when there is none
Draft == DictGet(session, "reserva_temp", EmptyDict)

\* this step is the answer of `route` to a request
Answers(route) == resp'.route = route /\ now' = now

\* a patient is logged in
HayPaciente == "user" \in DOMAIN session /\ session["user"].rol = "paciente"

\* this step answers a pay submission of a patient whose draft has a time
Finaliza == Answers("pago") /\ HayPaciente /\ "hora" \in DOMAIN Draft

\* this step is a pay submission that created an appointment
CreaCita ==
    /\ Answers("pago")
    /\ resp'.flash = "success" \/ store' # store \/ mem' # mem

\* the record a finalization has put last in the store or, when to_excel
\* raised, last in the buffer
NuevaCita == IF io'.write = "fail" THEN mem'[Len(mem')] ELSE store'[Len(store')]

\* the records of the store and of the buffer
Citas == store \o mem

IsHexText(t) == \A i \in 1..Len(t) : \E j \in 1..16 : HexDigits[j] = t[i]
IsDecimalText(t) == \A i \in 1..Len(t) : IsDigit(t[i])

\* C1: a finalization with method "QR" creates an appointment with status
\* Pagado and a non-empty hexadecimal reference; with any other method, or
\* none (recorded as EFECTIVO), one with status Pendiente and a reference of
\* exactly six decimal digits
C1_PagoEstadoReferencia ==
    [][Finaliza =>
        /\ Len(IF io'.write = "fail" THEN mem' ELSE store') > 0
        /\ LET c == NuevaCita IN
           IF c.metodo_pago = "QR"
           THEN /\ c.estado = "Pagado"
                /\ c.referencia # <<>>
                /\ IsHexText(c.referencia)
           ELSE /\ c.estado = "Pendiente"
                /\ Len(c.referencia) = 6
                /\ IsDecimalText(c.referencia)]_vars

\* C1, witness: a QR appointment and a cash appointment have been created
C1_Witness ==
    /\ resp.route = "pago" /\ resp.flash = "success"
    /\ \E i \in 1..Len(store) :
        /\ store[i].metodo_pago = "QR"
        /\ store[i].estado = "Pagado"
        /\ store[i].referencia =
             <<"0", "0", "a", "b", "c", "d", "e", "f", "1", "2", "3", "4">>
    /\ \E i \in 1..Len(store) :
        /\ store[i].metodo_pago \in {"EFECTIVO", "qr"}
        /\ store[i].estado = "Pendiente"
        /\ store[i].referencia = <<"0", "0", "0", "0", "4", "2">>

\* C2: when to_excel succeeds, a finalization appends one row to the store,
\* with the draft's specialty, doctor, date and time and the user's name,
\* leaves the rows already stored as they were and removes the draft
C2_AppendKeepsRows ==
    [][Finaliza /\ io'.write = "ok" =>
        /\ Len(store') = Len(store) + 1
        /\ SubSeq(store', 1, Len(store)) = store
        /\ LET row == store'[Len(store')] IN
            /\ row.usuario = session["user"].username
            /\ row.especialidad = Cell(Draft.especialidad)
            /\ row.fecha = Cell(Draft.fecha)
            /\ row.medico_id = Draft.medico_id
            /\ row.hora = Draft.hora
        /\ mem' = mem
        /\ "reserva_temp" \notin DOMAIN session']_vars

\* C3: a time step submitted while the draft has no doctor is redirected to
\* the doctor step, leaves the session as it was (no time is written) and
\* creates no appointment
C3_HoraSinMedico ==
    [][Answers("seleccionar_hora") /\ "medico_id" \notin DOMAIN Draft =>
        /\ resp'.status = "redirect"
        /\ resp'.to = "seleccionar_medico"
        /\ session' = session
        /\ store' = store
        /\ mem' = mem]_vars

\* C3, witness: the time step was refused for a draft that has a specialty
\* but no doctor, after an appointment had been booked in the same session
C3_Witness ==
    /\ resp.route = "seleccionar_hora"
    /\ resp.to = "seleccionar_medico"
    /\ "reserva_temp" \in DOMAIN session
    /\ "medico_id" \notin DOMAIN Draft
    /\ "hora" \notin DOMAIN Draft
    /\ Citas # <<>>

\* C2, with read_excel succeeding as well: the row is appended
C2_AppendWhenReadable ==
    [][Finaliza /\ io'.write = "ok" /\ io'.read = "ok" =>
        /\ store' = Append(store, store'[Len(store')])
        /\ LET row == store'[Len(store')] IN
            /\ row.usuario = session["user"].username
            /\ row.especialidad = Cell(Draft.especialidad)
            /\ row.fecha = Cell(Draft.fecha)
            /\ row.medico_id = Draft.medico_id
            /\ row.hora = Draft.hora
        /\ mem' = mem
        /\ "reserva_temp" \notin DOMAIN session']_vars

\* the rows of the store that carry this id
RowsOf(id) == {i \in 1..Len(store) : store[i].id = id}

\* C5: with the workbook readable and writable, marking an appointment that is
\* already Atendido reports success and changes neither the store nor
\* anything else the application keeps
C5_MarcarIdempotente ==
    [][/\ Answers("marcar_atendido")
       /\ io'.read = "ok" /\ io'.write = "ok"
       /\ RowsOf(resp'.cita_id) # {}
       /\ \A i \in RowsOf(resp'.cita_id) : store[i].estado = "Atendido"
       =>
       /\ resp'.flash = "success"
       /\ store' = store
       /\ mem' = mem
       /\ session' = session]_vars

\* C5, witness: an appointment is Atendido after a successful marking, next to
\* one with another id that is not
C5_Witness ==
    /\ resp.route = "marcar_atendido" /\ resp.flash = "success"
    /\ RowsOf(resp.cita_id) # {}
    /\ \A i \in RowsOf(resp.cita_id) : store[i].estado = "Atendido"
    /\ \E i \in 1..Len(store) : store[i].id # resp.cita_id /\ store[i].estado = "Pagado"

\* C6: a record enters the store or the buffer as Pendiente or Pagado; from
\* then on a stored record either stays as it is or has its status set to
\* Atendido, and a buffered record stays as it is; nothing returns from
\* Atendido
C6_Lifecycle ==
    [][/\ \A i \in 1..Len(store') :
            \/ /\ i <= Len(store)
               /\ \/ store'[i] = store[i]
                  \/ /\ store'[i] = [store[i] EXCEPT !.estado = "Atendido"]
                     /\ Answers("marcar_atendido")
            \/ /\ Finaliza
               /\ i = Len(store')
               /\ store'[i].estado \in {"Pendiente", "Pagado"}
       /\ \A i \in 1..Len(mem') :
            \/ i <= Len(mem) /\ mem'[i] = mem[i]
            \/ /\ Finaliza
               /\ i = Len(mem')
               /\ mem'[i].estado \in {"Pendiente", "Pagado"}
       /\ Len(mem') >= Len(mem)
       /\ Len(store') < Len(store) => Finaliza /\ io'.read = "fail"]_vars

\* C6, witness: an appointment was marked Atendido and another was created
\* Pagado after it
C6_Witness ==
    \E i, j \in 1..Len(store) :
        /\ i < j
        /\ store[i].estado = "Atendido"
        /\ store[j].estado = "Pagado"

\* C7: no two appointment records, stored or buffered, carry the same id
C7_IdsUnicos ==
    \A i, j \in 1..Len(Citas) : i # j => Citas[i].id # Citas[j].id

\* C8: when to_excel raises during a finalization the request still succeeds:
\* the record goes to the end of the buffer, the store is unchanged, the draft
\* is cleared and the answer is the redirect of a success; whatever to_excel
\* does, the record ends up in exactly one of store and buffer
C8_FallbackMem ==
    [][Finaliza =>
        /\ resp'.status = "redirect"
        /\ resp'.to = "citas_pendientes"
        /\ resp'.flash = "success"
        /\ "reserva_temp" \notin DOMAIN session'
        /\ io'.write \in {"ok", "fail"}
        /\ io'.write = "fail" =>
            /\ store' = store
            /\ Len(mem') = Len(mem) + 1
            /\ SubSeq(mem', 1, Len(mem)) = mem
            /\ LET c == mem'[Len(mem')] IN
                /\ c.usuario = session["user"].username
                /\ c.especialidad = Draft.especialidad
                /\ c.fecha = Draft.fecha
                /\ c.medico_id = Draft.medico_id
                /\ c.hora = Draft.hora
        /\ io'.write = "ok" =>
            /\ mem' = mem
            /\ Len(store') >= 1
            /\ LET c == store'[Len(store')] IN
                /\ c.usuario = session["user"].username
                /\ c.hora = Draft.hora]_vars

\* C8, witness: to_excel raised and the record is in the buffer, while the
\* store holds an earlier appointment
C8_Witness ==
    /\ resp.route = "pago" /\ resp.flash = "success"
    /\ io.write = "fail"
    /\ Len(mem) = 1
    /\ Len(store) = 1
    /\ "reserva_temp" \notin DOMAIN session

DraftEnOrden ==
    /\ "hora" \in DOMAIN Draft => "medico_id" \in DOMAIN Draft
    /\ "medico_id" \in DOMAIN Draft => {"especialidad", "fecha"} \subseteq DOMAIN Draft

Vacio(v) == v \in {None, "", NaN}

\* C10: a step submitted without its field leaves the draft as it was, so the
\* draft never holds an empty specialty or date, and no appointment has an
\* empty specialty, date, doctor or time
C10_CamposCompletos ==
    /\ "reserva_temp" \in DOMAIN session =>
        ~Vacio(Draft.especialidad) /\ ~Vacio(Draft.fecha)
    /\ \A i \in 1..Len(Citas) :
        /\ ~Vacio(Citas[i].especialidad)
        /\ ~Vacio(Citas[i].fecha)
        /\ ~Vacio(Citas[i].hora)
        /\ Citas[i].medico_id \in Nat

\* C11: marking an id that no stored appointment carries is answered with the
\* redirect of an error, not of a success, and leaves the status of every
\* stored appointment as it was
C11_MarcarDesconocido ==
    [][Answers("marcar_atendido") /\ RowsOf(resp'.cita_id) = {} =>
        /\ resp'.status = "redirect"
        /\ resp'.flash = "error"
        /\ Len(store') = Len(store)
        /\ \A i \in 1..Len(store) : store'[i].estado = store[i].estado]_vars

\* C11, the part the code keeps: with the workbook readable, marking an id
\* that no stored appointment carries leaves the store as it was
C11_DesconocidoNoCambia ==
    [][/\ Answers("marcar_atendido")
       /\ RowsOf(resp'.cita_id) = {}
       /\ io'.read = "ok"
       => store' = store /\ mem' = mem]_vars

(***************************************************************************)
(* Vocabulary of the claims about two requests in flight.                  *)
(***************************************************************************)
\* both requests have been answered with the message of success
AmbosExito == \A r \in 1..2 : reqs[r].pc = "done" /\ reqs[r].flash = "success"

\* the position in the history of a step of request r, 0 when it has not run
PosEn(r, paso) ==
    IF \E i \in 1..Len(orden) : orden[i] = <<r, paso>>
    THEN CHOOSE i \in 1..Len(orden) : orden[i] = <<r, paso>>
    ELSE 0

\* the request that wrote after the other one
Ultimo == CHOOSE r \in 1..2 : \A q \in 1..2 : PosEn(q, "write") <= PosEn(r, "write")
Primero == 3 - Ultimo

\* the last writer read the workbook before the first writer wrote it
Solapan == PosEn(Ultimo, "read") < PosEn(Primero, "write")

\* the store shows the update of request r: the row it appended (whatever the
\* status of the row has become) or, for every row it marked, the status
\* Atendido
Presente(r) ==
    IF reqs[r].op = "pago"
    THEN \E i \in 1..Len(store) :
            [store[i] EXCEPT !.estado = reqs[r].cita[1].estado] = ExcelRow(reqs[r].cita[1])
    ELSE \A i \in 1..Len(store) :
            store[i].id = reqs[r].cita_id => store[i].estado = "Atendido"

\* request r had something to update: a row to append, or rows with its id
ConEfecto(r) ==
    \/ reqs[r].op = "pago"
    \/ \E i \in 1..Len(reqs[r].df) : reqs[r].df[i].id = reqs[r].cita_id

\* C12: of two requests that write the workbook (two finalizations, or a
\* finalization and a mark-attended) and both report success, the one that
\* writes last leaves in the store exactly the frame it read with its own
\* update, so the update of the first writer is in the store if and only if
\* the last writer read after the first one wrote; when the last writer read
\* before, the first writer's appended appointment or Atendido status is lost
C12_UltimoEscritorGana ==
    AmbosExito =>
        /\ Presente(Ultimo)
        /\ ConEfecto(Primero) => (Presente(Primero) <=> ~Solapan)
        /\ store = to_excel(IF reqs[Ultimo].op = "pago"
                            THEN Append(reqs[Ultimo].df, reqs[Ultimo].cita[1])
                            ELSE marcar_filas(reqs[Ultimo].df, reqs[Ultimo].cita_id))

\* C12, witness: a finalization and a mark-attended both reported success, the
\* finalization wrote last, and the appointment that was marked is still
\* Pendiente in the store
C12_Witness ==
    /\ AmbosExito
    /\ reqs[2].op = "marcar_atendido"
    /\ Ultimo = 1
    /\ Presente(1)
    /\ \E i \in 1..Len(store) :
        store[i].id = reqs[2].cita_id /\ store[i].estado = "Pendiente"

\* C12, a second case: two finalizations both reported success and the store,
\* which held an appointment before, lacks the row of one of them
C12_WitnessAppend ==
    /\ AmbosExito
    /\ reqs[1].op = "pago" /\ reqs[2].op = "pago"
    /\ Len(store) = 2
    /\ \E r \in 1..2 : ~Presente(r)

\* C12, a third case: the mark-attended wrote last and the appended
\* appointment is lost
C12_WitnessMarcarUltimo ==
    /\ AmbosExito
    /\ reqs[2].op = "marcar_atendido"
    /\ Ultimo = 2
    /\ ~Presente(1)
    /\ Presente(2)

(***************************************************************************)
(* Vocabulary of the claims about get_horarios_disponibles.                *)
(***************************************************************************)
\* the two times get_horarios_disponibles works with: those of the dict,
\* 09:00 and 17:00 for a key that the dict does not have
Inicio == IF "start_time" \in DOMAIN medico THEN medico["start_time"]
          ELSE <<"0", "9", ":", "0", "0">>
Fin == IF "end_time" \in DOMAIN medico THEN medico["end_time"]
       ELSE <<"1", "7", ":", "0", "0">>

\* t is a text that reads as hours and minutes
SePuedeLeer(t) == t # NoText /\ strptime(t) >= 0

\* the slots of n minutes from start that end by end, as HH:MM texts
SlotsEntre(start, end, n) ==
    LET k == IF end - start >= n THEN (end - start) \div n ELSE 0
    IN [i \in 1..k |-> strftime(start + (i - 1) * n)]

\* C13: get_horarios_disponibles never fails.  When the start or the end time
\* of the doctor cannot be read as hours and minutes it returns 09:00, 09:30,
\* 10:00, 10:30, 11:00; when both can, it returns what generate_slots returned
\* for them with slots of 30 minutes, that is every half-hour slot from the
\* start that ends by the end; a time the dict lacks is 09:00 for the start
\* and 17:00 for the end
C13_HorariosPorDefecto ==
    /\ hd_pc \in {"off", "call", "try", "return"}
    /\ hd_pc = "try" => slot_in = [start |-> Inicio, end |-> Fin, n |-> 30]
    /\ hd_pc = "return" =>
        IF SePuedeLeer(Inicio) /\ SePuedeLeer(Fin)
        THEN /\ slot_pc = "return"
             /\ horarios = slots
             /\ horarios = SlotsEntre(strptime(Inicio), strptime(Fin), 30)
        ELSE /\ slot_pc \in {"ValueError", "TypeError"}
             /\ horarios = << <<"0", "9", ":", "0", "0">>, <<"0", "9", ":", "3", "0">>,
                             <<"1", "0", ":", "0", "0">>, <<"1", "0", ":", "3", "0">>,
                             <<"1", "1", ":", "0", "0">> >>

\* C13, witness: for a doctor who starts at 10:30 and whose end time is the
\* text 25:00 the fixed list has been returned
C13_Witness ==
    /\ hd_pc = "return"
    /\ medico = [id |-> 3, nombre |-> "Medico",
                 start_time |-> <<"1", "0", ":", "3", "0">>,
                 end_time |-> <<"2", "5", ":", "0", "0">>]
    /\ Len(horarios) = 5
    /\ horarios[1] = <<"0", "9", ":", "0", "0">>
    /\ horarios[5] = <<"1", "1", ":", "0", "0">>

\* C13, a second case: the dict has neither time and the sixteen half hours
\* from 09:00 to 16:30 have been returned
C13_WitnessSinHoras ==
    /\ hd_pc = "return"
    /\ medico = [id |-> 3, nombre |-> "Medico"]
    /\ Len(horarios) = 16
    /\ horarios[1] = <<"0", "9", ":", "0", "0">>
    /\ horarios[16] = <<"1", "6", ":", "3", "0">>

\* C14: an appointment is finalized under the name of the user who built its
\* draft, whatever logins and logouts the session has seen in between: its
\* owner is the user who submitted the specialty step of the draft
C14_DraftDeSuAutor ==
    [][CreaCita => NuevaCita.usuario = autor]_vars

\* C15: the page of pending appointments, asked for by a logged-in user while
\* the workbook is readable, lists every appointment of that user that the
\* store or the buffer holds
C15_CitasMostradas ==
    [][/\ Answers("citas_pendientes")
       /\ "user" \in DOMAIN session
       /\ io'.read = "ok"
       =>
       \A i \in 1..Len(Citas) :
            Citas[i].usuario = session["user"].username =>
                \E j \in 1..Len(resp'.citas) : resp'.citas[j] = Citas[i]]_vars

\* C15, the part the code keeps: while the workbook is readable the page lists
\* every appointment of the user that the store holds, and every one that the
\* buffer holds when the store holds none at all
C15_MostradasDelStore ==
    [][/\ Answers("citas_pendientes")
       /\ "user" \in DOMAIN session
       /\ io'.read = "ok"
       =>
       /\ resp'.citas = citas_de(IF store # <<>> THEN store ELSE mem,
                                 session["user"].username)
       /\ store' = store
       /\ mem' = mem]_vars

====
